---- MODULE Spec2Model ----
(***************************************************************************)
(* Model of BCSPy (src/BCSPy/BCSPy.py): the access-token cache, the        *)
(* chunked keyring store, the REST result normaliser, the Event bus and    *)
(* the nine WebSocket subscription channels with their receive threads.    *)
(***************************************************************************)
EXTENDS Integers, Sequences, FiniteSets, TLC

(***************************************************************************)
(* Python values.  None is a value of its own; strings are sequences of    *)
(* one-character strings where their content matters.                      *)
(***************************************************************************)
None == <<"None">>

StatusOK == 200

(***************************************************************************)
(* Bounds of the model.                                                    *)
(***************************************************************************)
MaxNow == 3
MaxRequests == 3
MaxCallers == 2
MaxSecretLen == 4
MaxChunkSize == 3
MaxFaultAt == 3
MaxChunks == 11
MaxOrders == 3
MaxRegistrations == 2
MaxConns == 2
MaxSent == 2
MaxFrames == 2

(***************************************************************************)
(* State.                                                                  *)
(***************************************************************************)
VARIABLES
    now,                    \* the UNIX clock read by get_access_token
    access_token,           \* self.access_token
    access_token_expired,   \* self.access_token_expired
    requests,               \* number of token requests posted by direct get_access_token calls
    tokenCall,              \* the last direct get_access_token call: time, request sent, result
    lastIssued,             \* the last token the endpoint issued: token, issue time, expiry
    store,                  \* the keyring: (service, key) -> stored password
    lastSaved,              \* per username: the last save or clear made for it
    loaded,                 \* the last load: username and the value returned
    keyCall,                \* the last keyring method called: the fault met, what escaped
    response,               \* the response last given to _check_result
    result,                 \* what _check_result made of it
    callbacks,              \* Event._callbacks of one Event
    registered,             \* per callback: subscribe calls since its last unsubscribe
    removed,                \* callbacks whose last bus operation was an unsubscribe
    triggered,              \* the last trigger: argument, callbacks invoked, raised or not
    ws,                     \* per channel: self.ws_<channel>, a connection or NoConn
    conns,                  \* per slot: a connection with its receive thread, or Free
    bus,                    \* per channel: the callbacks of self.on_<channel>
    apiCall,                \* the call made in the last step, if any: of a handler or of a callback
    wire,                   \* per slot: the frames the server sent that recv has not returned yet
    cur,                    \* per slot: the frame its thread is delivering, callbacks still to call
    log,                    \* per callback: the (slot, frame) pairs it was invoked with, in order
    framesSent,             \* number of frames the server has sent so far
    caller,                  \* per concurrent caller of get_access_token: where its call is
    issued,                 \* per token request: the expiry that came with its token, 0 if none
    subscriber,             \* per concurrent caller of subscribe_<channel>: where its call is
    sent                    \* the client order ids sent so far, with the method that sent each

tokenVars == <<now, access_token, access_token_expired, requests, tokenCall, lastIssued>>

keyVars == <<store, lastSaved, loaded, keyCall>>

checkVars == <<response, result>>

evVars == <<callbacks, registered, removed, triggered>>

wsVars == <<ws, conns, bus, apiCall>>

rxVars == <<wire, cur, log, framesSent>>

raceVars == <<caller, issued, subscriber>>

vars == <<tokenVars, keyVars, checkVars, evVars, wsVars, rxVars, raceVars, sent>>

(***************************************************************************)
(* Token Lifecycle Manager: BCSPy.get_access_token.                        *)
(***************************************************************************)
\* What requests.post can do with the token request: answer 200 with a JSON
\* body, answer another status, raise urllib3.exceptions.SSLError (the class
\* line 79 names), or raise another transport exception: a
\* requests.exceptions.ConnectionError, Timeout or SSLError, none of them a
\* subclass of urllib3's SSLError, so the code does not catch them.
PostOutcomes == {"ok", "refused", "ssl", "connerr"}

ExpiresIn == {1, 2}

Token(i) == <<"jwt", i>>

NoCall == [seq |-> 0, at |-> 0, sent |-> FALSE, ret |-> None, raised |-> FALSE,
           answer |-> "none"]

NoIssue == [tok |-> None, at |-> 0, exp |-> 0]

\* The condition of line 73 (NeedsRefresh_unset: the faulty variant that
\* looks at the token only).
NeedsRefresh_unset(tok, exp, t) == tok = None

NeedsRefresh(tok, exp, t) == tok = None \/ t >= exp

\* The expiry stored at line 92 (NewExpiry_now: the faulty variant that
\* stores the clock value alone; NewExpiry_margin: the one that subtracts
\* a margin).
NewExpiry_now(t, expires_in) == t

NewExpiry_margin(t, expires_in) == t + expires_in - 1

NewExpiry(t, expires_in) == t + expires_in

\* Lines 81-82 and 86-87: the cache after a failed request (ClearedCache_keep:
\* the faulty variant that leaves the cache as it was).
ClearedCache_keep(tok, exp) == [access_token |-> tok, access_token_expired |-> exp]

ClearedCache(tok, exp) == [access_token |-> None, access_token_expired |-> 0]

\* get_access_token run at clock value t with cache (tok, exp), when the
\* endpoint (if asked) behaves as `outcome` and issues `newtok` valid for
\* `expires_in` seconds.  The result is the cache afterwards, the value
\* returned, whether a request was sent and whether an exception escaped.
get_access_token(tok, exp, t, outcome, newtok, expires_in) ==
    IF NeedsRefresh(tok, exp, t)
    THEN CASE outcome = "ssl" ->
                [access_token |-> ClearedCache(tok, exp).access_token,
                 access_token_expired |-> ClearedCache(tok, exp).access_token_expired,
                 ret |-> None, sent |-> TRUE, raised |-> FALSE, issued |-> FALSE,
                 answer |-> outcome]
           [] outcome = "connerr" ->
                [access_token |-> tok, access_token_expired |-> exp,
                 ret |-> None, sent |-> TRUE, raised |-> TRUE, issued |-> FALSE,
                 answer |-> outcome]
           [] outcome = "refused" ->
                [access_token |-> ClearedCache(tok, exp).access_token,
                 access_token_expired |-> ClearedCache(tok, exp).access_token_expired,
                 ret |-> None, sent |-> TRUE, raised |-> FALSE, issued |-> FALSE,
                 answer |-> outcome]
           [] outcome = "ok" ->
                [access_token |-> newtok,
                 access_token_expired |-> NewExpiry(t, expires_in),
                 ret |-> newtok, sent |-> TRUE, raised |-> FALSE, issued |-> TRUE,
                 answer |-> outcome]
    ELSE [access_token |-> tok, access_token_expired |-> exp,
          ret |-> tok, sent |-> FALSE, raised |-> FALSE, issued |-> FALSE,
          answer |-> "none"]

\* The effect of one direct get_access_token call on the token state and on
\* the record kept of such calls.
TokenEffect(r, expires_in) ==
    /\ access_token' = r.access_token
    /\ access_token_expired' = r.access_token_expired
    /\ requests' = IF r.sent THEN requests + 1 ELSE requests
    /\ tokenCall' = [seq |-> 1 - tokenCall.seq, at |-> now, sent |-> r.sent,
                     ret |-> r.ret, raised |-> r.raised, answer |-> r.answer]
    /\ lastIssued' = IF r.issued
                     THEN [tok |-> r.ret, at |-> now, exp |-> now + expires_in]
                     ELSE lastIssued
    /\ UNCHANGED now

TokenInit ==
    /\ now = 0
    /\ access_token = None
    /\ access_token_expired = 0
    /\ requests = 0
    /\ tokenCall = NoCall
    /\ lastIssued = NoIssue

\* A caller calls get_access_token.
GetAccessToken ==
    \E outcome \in PostOutcomes, expires_in \in ExpiresIn :
        LET r == get_access_token(access_token, access_token_expired, now,
                                  outcome, Token(requests + 1), expires_in)
        IN /\ r.sent => requests < MaxRequests
           /\ TokenEffect(r, expires_in)

\* The clock advances by a second.
Tick ==
    /\ now < MaxNow
    /\ now' = now + 1
    /\ UNCHANGED <<access_token, access_token_expired, requests, tokenCall, lastIssued>>

(***************************************************************************)
(* get_access_token called by several threads at once.  No lock guards     *)
(* the cache, so a thread can be preempted between any two statements: a   *)
(* call is followed statement by statement.  Line 72 reads the clock and   *)
(* line 73 the cache; the post of lines 75-77 takes time; lines 81/91      *)
(* write the token and lines 82/92 write the expiry, each in a statement   *)
(* of its own; line 93 reads the token to return from the cache.           *)
(***************************************************************************)
Callers == 1..MaxCallers

Idle == [pc |-> "idle", at |-> 0, answer |-> "none", tok |-> None, exp |-> 0,
         ret |-> None, raised |-> FALSE, done |-> FALSE]

RaceInit ==
    /\ caller = [i \in Callers |-> Idle]
    /\ issued = [n \in 1..MaxRequests |-> 0]
    /\ subscriber = [i \in Callers |-> "idle"]

\* Lines 72-73: the call begins, reads the clock and tests the cache.
CallerCheck(i) ==
    /\ caller[i].pc = "idle"
    /\ caller' = [caller EXCEPT ![i] =
                    [Idle EXCEPT !.at = now,
                                 !.pc = IF NeedsRefresh(access_token, access_token_expired, now)
                                        THEN "post" ELSE "return"]]
    /\ UNCHANGED <<tokenVars, issued>>

\* Lines 75-79, 84 and 90: the request is posted and answered.  An
\* exception other than urllib3's SSLError ends the call at once.
CallerPost(i) ==
    /\ caller[i].pc = "post"
    /\ requests < MaxRequests
    /\ \E outcome \in PostOutcomes, expires_in \in ExpiresIn :
          /\ caller' = [caller EXCEPT ![i] =
                IF outcome = "connerr"
                THEN [@ EXCEPT !.pc = "idle", !.answer = outcome,
                               !.raised = TRUE, !.done = TRUE]
                ELSE IF outcome = "ok"
                THEN [@ EXCEPT !.pc = "set_token", !.answer = outcome,
                               !.tok = Token(requests + 1),
                               !.exp = NewExpiry(caller[i].at, expires_in)]
                ELSE [@ EXCEPT !.pc = "set_token", !.answer = outcome]]
          /\ issued' = IF outcome = "ok"
                       THEN [issued EXCEPT ![requests + 1] =
                                NewExpiry(caller[i].at, expires_in)]
                       ELSE issued
    /\ requests' = requests + 1
    /\ UNCHANGED <<now, access_token, access_token_expired, tokenCall, lastIssued>>

\* Line 91 after a token was issued, line 81 (or 86) after a failure.
CallerSetToken(i) ==
    /\ caller[i].pc = "set_token"
    /\ access_token' = IF caller[i].answer = "ok" THEN caller[i].tok
                       ELSE ClearedCache(access_token, access_token_expired).access_token
    /\ caller' = [caller EXCEPT ![i].pc = "set_expired"]
    /\ UNCHANGED <<now, access_token_expired, requests, tokenCall, lastIssued, issued>>

\* Line 92 after a token was issued; lines 82-83 (or 87-88) after a failure,
\* which return None.
CallerSetExpired(i) ==
    /\ caller[i].pc = "set_expired"
    /\ access_token_expired' =
            IF caller[i].answer = "ok" THEN caller[i].exp
            ELSE ClearedCache(access_token, access_token_expired).access_token_expired
    /\ caller' = [caller EXCEPT ![i] =
                    IF @.answer = "ok" THEN [@ EXCEPT !.pc = "return"]
                    ELSE [@ EXCEPT !.pc = "idle", !.ret = None, !.done = TRUE]]
    /\ UNCHANGED <<now, access_token, requests, tokenCall, lastIssued, issued>>

\* Line 93: the call returns what the cache holds now.
CallerReturn(i) ==
    /\ caller[i].pc = "return"
    /\ caller' = [caller EXCEPT ![i] =
                    [@ EXCEPT !.pc = "idle", !.ret = access_token, !.done = TRUE]]
    /\ UNCHANGED <<tokenVars, issued>>

(***************************************************************************)
(* Credential Store: get_/set_/clear_long_token_(from|to)_keyring over the *)
(* keyring module, which maps (service, key) to a password and answers     *)
(* None for a key it does not hold.                                        *)
(***************************************************************************)
Alphabet == {"x", "y"}

Strings(n) == UNION {[1..k -> Alphabet] : k \in 0..n}

Secrets == Strings(MaxSecretLen)

ChunkSizes == 1..MaxChunkSize

Service == "BCSPy"

Usernames == {<<"refresh_token">>}

Min(a, b) == IF a < b THEN a ELSE b

\* str(index): the decimal digits of a non-negative integer.
DigitChar == <<"0", "1", "2", "3", "4", "5", "6", "7", "8", "9">>

RECURSIVE Str(_)
Str(n) == IF n < 10 THEN <<DigitChar[n + 1]>>
          ELSE Str(n \div 10) \o <<DigitChar[(n % 10) + 1]>>

\* f'{username}{index}' (KeyOf_from1: the faulty variant that numbers the
\* chunks from 1).
KeyOf_from1(username, index) == username \o Str(index + 1)

KeyOf(username, index) == username \o Str(index)

\* keyring.get_password, keyring.set_password, keyring.delete_password
get_password(st, service, key) ==
    IF <<service, key>> \in DOMAIN st THEN st[<<service, key>>] ELSE None

set_password(st, service, key, password) ==
    [k \in DOMAIN st \cup {<<service, key>>} |->
        IF k = <<service, key>> THEN password ELSE st[k]]

delete_password(st, service, key) ==
    [k \in DOMAIN st \ {<<service, key>>} |-> st[k]]

\* The loop of clear_long_token_from_keyring from `index` on
\* (ClearFrom_first: the faulty variant that deletes one part only).
ClearFrom_first(st, service, username, index) ==
    IF get_password(st, service, KeyOf(username, index)) = None
    THEN st
    ELSE delete_password(st, service, KeyOf(username, index))

RECURSIVE ClearFrom(_, _, _, _)
ClearFrom(st, service, username, index) ==
    IF get_password(st, service, KeyOf(username, index)) = None
    THEN st
    ELSE ClearFrom(delete_password(st, service, KeyOf(username, index)),
                   service, username, index + 1)

clear_long_token_from_keyring(st, service, username) ==
    ClearFrom(st, service, username, 0)

\* range(start, stop, step) for step > 0, as a sequence.
RECURSIVE Range(_, _, _)
Range(start, stop, step) ==
    IF start >= stop THEN <<>> ELSE <<start>> \o Range(start + step, stop, step)

\* token[i:j] for 0 <= i: the characters at 0-based positions i .. j-1,
\* j clamped to the length.
Slice(token, i, j) == SubSeq(token, i + 1, Min(j, Len(token)))

\* The list comprehension of line 514 (SplitToken_short: the faulty variant
\* whose slices end one character early).
SplitToken_short(token, size) ==
    LET starts == Range(0, Len(token), size)
    IN [k \in 1..Len(starts) |-> Slice(token, starts[k], starts[k] + size - 1)]

SplitToken(token, size) ==
    LET starts == Range(0, Len(token), size)
    IN [k \in 1..Len(starts) |-> Slice(token, starts[k], starts[k] + size)]

\* The loop of lines 515-516 from part k on (index = k - 1).
RECURSIVE WriteParts(_, _, _, _, _)
WriteParts(st, service, username, parts, k) ==
    IF k > Len(parts) THEN st
    ELSE WriteParts(set_password(st, service, KeyOf(username, k - 1), parts[k]),
                    service, username, parts, k + 1)

set_long_token_to_keyring(st, service, username, token, size) ==
    WriteParts(clear_long_token_from_keyring(st, service, username),
               service, username, SplitToken(token, size), 1)

\* The loop of get_long_token_from_keyring from `index` on: the parts read.
RECURSIVE ReadParts(_, _, _, _)
ReadParts(st, service, username, index) ==
    LET part == get_password(st, service, KeyOf(username, index))
    IN IF part = None THEN <<>>
       ELSE <<part>> \o ReadParts(st, service, username, index + 1)

\* ''.join(parts)
RECURSIVE Join(_)
Join(parts) == IF parts = <<>> THEN <<>> ELSE Head(parts) \o Join(Tail(parts))

get_long_token_from_keyring(st, service, username) ==
    LET token_parts == ReadParts(st, service, username, 0)
    IN IF token_parts = <<>> THEN None ELSE <<"str", Join(token_parts)>>

NoSave == [op |-> "none", token |-> <<>>, size |-> 0]

NoLoad == [username |-> <<>>, value |-> None]

\* A fault of the storage during one method call: the keyring call (counted
\* from 1 within the method) that raises, and what it raises: a
\* keyring.errors.KeyringError or an exception of another class, as the
\* backends raise for errors they do not translate.  at = 0: no fault.
NoFault == [at |-> 0, kind |-> "none"]

Faults == {NoFault} \cup [at : 1..MaxFaultAt, kind : {"KeyringError", "Exception"}]

NoKeyCall == [op |-> "none", met |-> "none", raised |-> FALSE]

KeyInit ==
    /\ store = <<>>
    /\ lastSaved = [u \in Usernames |-> NoSave]
    /\ loaded = NoLoad
    /\ keyCall = NoKeyCall

Save(username, token, size) ==
    /\ store' = set_long_token_to_keyring(store, Service, username, token, size)
    /\ lastSaved' = [lastSaved EXCEPT
                        ![username] = [op |-> "save", token |-> token, size |-> size]]
    /\ loaded' = NoLoad
    /\ keyCall' = [op |-> "save", met |-> "none", raised |-> FALSE]

Clear(username) ==
    /\ store' = clear_long_token_from_keyring(store, Service, username)
    /\ lastSaved' = [lastSaved EXCEPT
                        ![username] = [op |-> "clear", token |-> <<>>, size |-> 0]]
    /\ loaded' = NoLoad
    /\ keyCall' = [op |-> "clear", met |-> "none", raised |-> FALSE]

Load(username) ==
    /\ loaded' = [username |-> username,
                  value |-> get_long_token_from_keyring(store, Service, username)]
    /\ keyCall' = [op |-> "load", met |-> "none", raised |-> FALSE]
    /\ UNCHANGED <<store, lastSaved>>

SaveAny == \E u \in Usernames, s \in Secrets, c \in ChunkSizes : Save(u, s, c)

ClearAny == \E u \in Usernames : Clear(u)

LoadAny == \E u \in Usernames : Load(u)

(***************************************************************************)
(* The same three methods when the storage can fail.  A run of a method    *)
(* is followed call by call: `calls` counts the keyring calls made so far, *)
(* and the call numbered fault.at raises fault.kind.  A run yields the     *)
(* store it leaves, the calls made and the exception that ended it ("none" *)
(* if it came to its end).                                                 *)
(***************************************************************************)
Fails(calls, fault) == fault.at # 0 /\ calls = fault.at

\* The loop of lines 525-531 from `index` on.
RECURSIVE ClearRun(_, _, _, _, _, _)
ClearRun(st, service, username, index, calls, fault) ==
    IF Fails(calls + 1, fault)
    THEN [st |-> st, calls |-> calls + 1, exc |-> fault.kind]
    ELSE IF get_password(st, service, KeyOf(username, index)) = None
    THEN [st |-> st, calls |-> calls + 1, exc |-> "none"]
    ELSE IF Fails(calls + 2, fault)
    THEN [st |-> st, calls |-> calls + 2, exc |-> fault.kind]
    ELSE ClearRun(delete_password(st, service, KeyOf(username, index)),
                  service, username, index + 1, calls + 2, fault)

\* What a method's except clauses let through: clear catches KeyringError
\* only (line 532), load and save catch every Exception (lines 505-508,
\* 518-521).
CaughtByClear(exc) == exc = "KeyringError"

CaughtByLoadSave(exc) == exc \in {"KeyringError", "Exception"}

\* clear_long_token_from_keyring: the store left, the calls made, and the
\* exception that escapes it ("none" when it returns normally).
ClearFaulty(st, service, username, calls, fault) ==
    LET run == ClearRun(st, service, username, 0, calls, fault)
    IN [st |-> run.st, calls |-> run.calls,
        exc |-> IF CaughtByClear(run.exc) THEN "none" ELSE run.exc]

\* The loop of lines 515-516 from part k on.
RECURSIVE WriteRun(_, _, _, _, _, _, _)
WriteRun(st, service, username, parts, k, calls, fault) ==
    IF k > Len(parts) THEN [st |-> st, calls |-> calls, exc |-> "none"]
    ELSE IF Fails(calls + 1, fault)
    THEN [st |-> st, calls |-> calls + 1, exc |-> fault.kind]
    ELSE WriteRun(set_password(st, service, KeyOf(username, k - 1), parts[k]),
                  service, username, parts, k + 1, calls + 1, fault)

\* set_long_token_to_keyring: the clear runs inside the try of save, so what
\* escapes the clear ends the save in its own except clause.
SaveFaulty(st, service, username, token, size, fault) ==
    LET cleared == ClearFaulty(st, service, username, 0, fault)
        written == IF cleared.exc # "none" THEN cleared
                   ELSE WriteRun(cleared.st, service, username,
                                 SplitToken(token, size), 1, cleared.calls, fault)
    IN [st |-> written.st, calls |-> written.calls,
        exc |-> IF CaughtByLoadSave(written.exc) THEN "none" ELSE written.exc]

\* The loop of lines 493-498 from `index` on.
RECURSIVE ReadRun(_, _, _, _, _, _)
ReadRun(st, service, username, index, calls, fault) ==
    IF Fails(calls + 1, fault)
    THEN [parts |-> <<>>, calls |-> calls + 1, exc |-> fault.kind]
    ELSE LET part == get_password(st, service, KeyOf(username, index))
         IN IF part = None
            THEN [parts |-> <<>>, calls |-> calls + 1, exc |-> "none"]
            ELSE LET rest == ReadRun(st, service, username, index + 1, calls + 1, fault)
                 IN [rest EXCEPT !.parts = <<part>> \o @]

\* get_long_token_from_keyring: a run ended by an exception falls out of the
\* except clause and returns None.
LoadFaulty(st, service, username, fault) ==
    LET run == ReadRun(st, service, username, 0, 0, fault)
    IN [value |-> IF run.exc # "none" \/ run.parts = <<>>
                  THEN None ELSE <<"str", Join(run.parts)>>,
        calls |-> run.calls,
        exc |-> IF CaughtByLoadSave(run.exc) THEN "none" ELSE run.exc]

\* The record of a method call: the kind of the fault it met ("none" when
\* the run ended before the faulty call) and whether an exception escaped.
KeyCall(op, fault, run) ==
    [op |-> op,
     met |-> IF Fails(run.calls, fault) THEN fault.kind ELSE "none",
     raised |-> run.exc # "none"]

\* The record of a save or clear keeps, as `before`, what a load would have
\* returned when the call began.
SaveWithFault(username, token, size, fault) ==
    LET run == SaveFaulty(store, Service, username, token, size, fault)
    IN /\ store' = run.st
       /\ lastSaved' = [lastSaved EXCEPT
                           ![username] =
                               [op |-> "save", token |-> token, size |-> size,
                                before |-> get_long_token_from_keyring(
                                               store, Service, username)]]
       /\ loaded' = NoLoad
       /\ keyCall' = KeyCall("save", fault, run)

ClearWithFault(username, fault) ==
    LET run == ClearFaulty(store, Service, username, 0, fault)
    IN /\ store' = run.st
       /\ lastSaved' = [lastSaved EXCEPT
                           ![username] =
                               [op |-> "clear", token |-> <<>>, size |-> 0,
                                before |-> get_long_token_from_keyring(
                                               store, Service, username)]]
       /\ loaded' = NoLoad
       /\ keyCall' = KeyCall("clear", fault, run)

LoadWithFault(username, fault) ==
    LET run == LoadFaulty(store, Service, username, fault)
    IN /\ loaded' = [username |-> username, value |-> run.value]
       /\ keyCall' = KeyCall("load", fault, run)
       /\ UNCHANGED <<store, lastSaved>>

(***************************************************************************)
(* The keyring shared by two usernames of one service, the second being    *)
(* the first followed by a digit.  The record of a call names its          *)
(* username.                                                               *)
(***************************************************************************)
Names == {<<"u">>, <<"u", "1">>}

SaveNamed(username, token, size) ==
    /\ store' = set_long_token_to_keyring(store, Service, username, token, size)
    /\ keyCall' = [op |-> "save", met |-> "none", raised |-> FALSE,
                   username |-> username]
    /\ loaded' = NoLoad
    /\ UNCHANGED lastSaved

ClearNamed(username) ==
    /\ store' = clear_long_token_from_keyring(store, Service, username)
    /\ keyCall' = [op |-> "clear", met |-> "none", raised |-> FALSE,
                   username |-> username]
    /\ loaded' = NoLoad
    /\ UNCHANGED lastSaved

(***************************************************************************)
(* Request/Response Normalizer: BCSPy._check_result.  A response is None   *)
(* (no response object) or a requests.Response with a status code and a    *)
(* body of bytes.  Bodies are written as Python bytes literals, texts as   *)
(* the str they decode to, parsed values as a type tag and a repr.         *)
(***************************************************************************)
Statuses == {200, 201, 204, 301, 400, 401, 404, 500}

Contents == {"b'{\"a\":1}'", "b'[1,2]'", "b'\"OK\"'", "b'OK'", "b''", "b'null'",
             "b'true'", "b'12'", "b'{\"a\":'", "b'<html>'", "b'{}'",
             "b'\\xd0\\x9e\\xd0\\x9a'", "b'\\xff'"}

Response(status_code, content) == <<"Response", status_code, content>>

StatusCode(resp) == resp[2]

Content(resp) == resp[3]

Responses == {None} \cup {Response(sc, ct) : sc \in Statuses, ct \in Contents}

UnicodeDecodeError == <<"raise", "UnicodeDecodeError">>

JSONDecodeError == <<"raise", "JSONDecodeError">>

\* bytes.decode('utf-8')
Decode(content) ==
    CASE content = "b'{\"a\":1}'" -> <<"str", "{\"a\":1}">>
      [] content = "b'[1,2]'" -> <<"str", "[1,2]">>
      [] content = "b'\"OK\"'" -> <<"str", "\"OK\"">>
      [] content = "b'OK'" -> <<"str", "OK">>
      [] content = "b''" -> <<"str", "">>
      [] content = "b'null'" -> <<"str", "null">>
      [] content = "b'true'" -> <<"str", "true">>
      [] content = "b'12'" -> <<"str", "12">>
      [] content = "b'{\"a\":'" -> <<"str", "{\"a\":">>
      [] content = "b'<html>'" -> <<"str", "<html>">>
      [] content = "b'{}'" -> <<"str", "{}">>
      [] content = "b'\\xd0\\x9e\\xd0\\x9a'" -> <<"str", "OK (cyrillic)">>
      [] OTHER -> UnicodeDecodeError

\* json.loads
loads(text) ==
    CASE text = "{\"a\":1}" -> <<"dict", "{'a': 1}">>
      [] text = "[1,2]" -> <<"list", "[1, 2]">>
      [] text = "\"OK\"" -> <<"str", "OK">>
      [] text = "null" -> None
      [] text = "true" -> <<"bool", "True">>
      [] text = "12" -> <<"int", "12">>
      [] text = "{}" -> <<"dict", "{}">>
      [] text = "{\"bid\":1}" -> <<"dict", "{'bid': 1}">>
      [] text = "{\"bid\":2}" -> <<"dict", "{'bid': 2}">>
      [] OTHER -> JSONDecodeError

\* `not response` at line 385: None is falsy, and a requests.Response is
\* falsy when its status code is 400 or more (Response.__bool__ is Response.ok).
Falsy(resp) == resp = None \/ StatusCode(resp) >= 400

\* The status test of line 389.
IsErrorStatus(status_code) == status_code # StatusOK

\* The try/except of lines 394-397.
ParseOrText(text) ==
    IF loads(text) = JSONDecodeError THEN <<"str", text>> ELSE loads(text)

_check_result(resp) ==
    IF Falsy(resp) THEN None
    ELSE LET content == Decode(Content(resp))
         IN IF content = UnicodeDecodeError THEN UnicodeDecodeError
            ELSE IF IsErrorStatus(StatusCode(resp)) THEN None
            ELSE ParseOrText(content[2])

NotCalled == <<"not called">>

CheckInit ==
    /\ response = NotCalled
    /\ result = NotCalled

(***************************************************************************)
(* Orders: the client order id of create_order, cancel_order, edit_order.  *)
(* The default of the parameter client_order_id is the expression          *)
(* str(uuid4()) in the def statement, which Python evaluates once, when    *)
(* the method is defined; uuid4 gives a new value at each evaluation,      *)
(* written <<"uuid", n>> for the n-th one.                                 *)
(***************************************************************************)
DefaultId(method) ==
    CASE method = "create_order" -> <<"uuid", 1>>
      [] method = "cancel_order" -> <<"uuid", 2>>
      [] method = "edit_order" -> <<"uuid", 3>>

OrderInit == sent = <<>>

\* A call of `method` with the client_order_id `given`, None when the
\* caller leaves it out: the id of params['clientOrderId'].
OrderCall(method, given) ==
    /\ Len(sent) < MaxOrders
    /\ sent' = Append(sent, [method |-> method,
                             id |-> IF given = None THEN DefaultId(method) ELSE given,
                             defaulted |-> given = None])

(***************************************************************************)
(* Event bus: class Event.                                                 *)
(***************************************************************************)
Callbacks == {"f", "g"}

Args == {"x", "y"}

\* Event.subscribe
EventSubscribe(cbs, callback) == cbs \cup {callback}

\* Event.unsubscribe (EventUnsubscribe_keep: the faulty variant that discards
\* nothing).
EventUnsubscribe_keep(cbs, callback) == cbs

EventUnsubscribe(cbs, callback) == cbs \ {callback}

\* list(self._callbacks): the callbacks in some order, each once
\* (Snapshots_some: the faulty variant that may leave callbacks out).
Snapshots_some(cbs) ==
    UNION {{q \in [1..n -> cbs] : \A i, j \in DOMAIN q : q[i] = q[j] => i = j} :
             n \in 0..Cardinality(cbs)}

Snapshots(cbs) ==
    {q \in [1..Cardinality(cbs) -> cbs] : \A i, j \in DOMAIN q : q[i] = q[j] => i = j}

\* The loop of Event.trigger over a snapshot when the callbacks in `raisers`
\* raise: the callbacks invoked, up to and including the first that raises.
RECURSIVE Invoked(_, _)
Invoked(snapshot, raisers) ==
    IF snapshot = <<>> THEN <<>>
    ELSE IF Head(snapshot) \in raisers THEN <<Head(snapshot)>>
    ELSE <<Head(snapshot)>> \o Invoked(Tail(snapshot), raisers)

\* Whether the trigger raised.
Raised(snapshot, raisers) == \E i \in DOMAIN snapshot : snapshot[i] \in raisers

NoTrigger == [arg |-> "-", calls |-> <<>>, raised |-> FALSE]

EvInit ==
    /\ callbacks = {}
    /\ registered = [cb \in Callbacks |-> 0]
    /\ removed = {}
    /\ triggered = NoTrigger

(***************************************************************************)
(* Subscription Channel Manager: subscribe_<channel>, unsubscribe_<channel> *)
(* and _subscribe_thread.  The nine channels have one handler pair each,   *)
(* the same code over the channel's own handle and Event; quotes,          *)
(* last_candle, order_book and trades also send a filter request.          *)
(*                                                                         *)
(* A connection is a record in one of MaxConns slots: its channel, whether *)
(* it is open, the filter requests the server holds for it (it drops them  *)
(* when the connection closes) and where its receive thread is: in the     *)
(* loop ("recv") or returned on ConnectionClosed or on another Exception.  *)
(* A slot is free again once the thread has returned and no handle refers  *)
(* to the connection.                                                      *)
(***************************************************************************)
Channels == {"limits", "portfolio", "executions", "transactions", "quotes",
             "last_candle", "order_book", "trades", "margins"}

FilterChannels == {"quotes", "last_candle", "order_book", "trades"}

\* The dataType of the request of each filter channel (lines 226, 249, 284, 306).
DataType(c) ==
    CASE c = "quotes" -> 3
      [] c = "last_candle" -> 1
      [] c = "order_book" -> 0
      [] c = "trades" -> 2

Instruments == {"TQBR.SBER", "SPBFUT.CNYRUBF"}

\* The request of a filter channel; subscribe_type 0 (subscribe) is the one
\* followed here, the value is passed through to the server unchanged.
Request(c, instruments) ==
    [subscribeType |-> 0, dataType |-> DataType(c), instruments |-> instruments]

\* The text frames the server may send.
Frames == {"{\"bid\":1}", "not json"}

NoConn == 0

Slots == 1..MaxConns

Free == [chan |-> "-", state |-> "free", filters |-> <<>>, thread |-> "-"]

\* `self.ws_<channel> is None` (NotSubscribed_always: the faulty variant
\* that reconnects on every call).
NotSubscribed_always(handle) == TRUE

NotSubscribed(handle) == handle = NoConn

\* ClientConnection.close(): the state of the connection afterwards
\* (CloseState_leak: the faulty variant that leaves it as it was).
CloseState_leak(state) == state

CloseState(state) == "closed"

\* connect(...) followed by Thread(target=self._subscribe_thread, ...).start()
NewConn(c) == [chan |-> c, state |-> "open", filters |-> <<>>, thread |-> "recv"]

\* The subscribe_/unsubscribe_ call made by the last step, if it was one:
\* whether an exception reached the caller and what it came from (the answer
\* to the token request, a failed connect, a send on a closed connection, a
\* close on a handle that is None).
NoApiCall == [op |-> "none", chan |-> "-", raised |-> FALSE, cause |-> "none"]

ApiCall(op, c, raised, cause) ==
    [op |-> op, chan |-> c, raised |-> raised, cause |-> cause]

WsInit ==
    /\ ws = [c \in Channels |-> NoConn]
    /\ conns = [k \in Slots |-> Free]
    /\ bus = [c \in Channels |-> {}]
    /\ apiCall = NoApiCall

\* ws.send(dumps(request)) on connection k: the frame is sent when the
\* connection is open, and ConnectionClosed is raised when it is not.
Send(cs, k, request) ==
    IF cs[k].state = "open"
    THEN [cs EXCEPT ![k].filters = Append(@, request)]
    ELSE cs

\* The record of connection k once its thread has returned with `how`: kept
\* while the channel's handle refers to it, gone otherwise.
Returned(k, how) ==
    IF ws[conns[k].chan] = k THEN [conns[k] EXCEPT !.thread = how] ELSE Free

\* The cache part of a get_access_token call made through _get_headers.
HeadersEffect(r) ==
    /\ access_token' = r.access_token
    /\ access_token_expired' = r.access_token_expired
    /\ UNCHANGED <<now, requests, tokenCall, lastIssued>>

\* subscribe_<c>() for c without a request, subscribe_<c>(0, instruments) for
\* a filter channel.  `outcome` and `expires_in` are what the token endpoint
\* does if asked, `connects` whether connect() succeeds (the server refuses a
\* handshake that carries no token).
Subscribe(c, instruments, outcome, expires_in, connects) ==
    LET r == get_access_token(access_token, access_token_expired, now,
                              outcome, Token(requests + 1), expires_in)
        k == CHOOSE j \in Slots : conns[j] = Free /\ \A i \in 1..(j - 1) : conns[i] # Free
        opened == [conns EXCEPT ![k] = NewConn(c)]
    IN IF NotSubscribed(ws[c])
       THEN /\ HeadersEffect(r)
            /\ IF r.raised \/ ~connects \/ r.ret = None
               THEN /\ apiCall' = ApiCall("subscribe", c, TRUE,
                                        IF r.raised \/ r.ret = None
                                        THEN r.answer ELSE "connect")
                    /\ UNCHANGED <<ws, conns>>
               ELSE /\ \E j \in Slots : conns[j] = Free
                    /\ ws' = [ws EXCEPT ![c] = k]
                    /\ conns' = IF c \in FilterChannels
                                THEN Send(opened, k, Request(c, instruments))
                                ELSE opened
                    /\ apiCall' = ApiCall("subscribe", c, FALSE, "none")
            /\ UNCHANGED bus
       ELSE /\ IF c \in FilterChannels
               THEN /\ Len(conns[ws[c]].filters) < MaxSent
                    /\ conns' = Send(conns, ws[c], Request(c, instruments))
                    /\ apiCall' = IF conns[ws[c]].state = "open"
                                  THEN ApiCall("subscribe", c, FALSE, "none")
                                  ELSE ApiCall("subscribe", c, TRUE, "send")
               ELSE /\ apiCall' = ApiCall("subscribe", c, FALSE, "none")
                    /\ UNCHANGED conns
            /\ UNCHANGED <<tokenVars, ws, bus>>

\* `self.ws_<channel> is not None` (IsSubscribed_always: the faulty variant
\* that closes whatever the handle is).
IsSubscribed_always(handle) == TRUE

IsSubscribed(handle) == handle # NoConn

\* unsubscribe_<c>().  close() on a handle that is None would raise
\* AttributeError before anything is changed.
Unsubscribe(c) ==
    /\ IF IsSubscribed(ws[c])
       THEN IF ws[c] = NoConn
            THEN /\ apiCall' = ApiCall("unsubscribe", c, TRUE, "handle")
                 /\ UNCHANGED <<ws, conns>>
            ELSE /\ conns' = [conns EXCEPT ![ws[c]] =
                                 IF @.thread \in {"ConnectionClosed", "Exception"}
                                 THEN Free
                                 ELSE [@ EXCEPT !.state = CloseState(@),
                                                !.filters = IF CloseState(@) = "open"
                                                            THEN @ ELSE <<>>]]
                 /\ ws' = [ws EXCEPT ![c] = NoConn]
                 /\ apiCall' = ApiCall("unsubscribe", c, FALSE, "none")
       ELSE /\ apiCall' = ApiCall("unsubscribe", c, FALSE, "none")
            /\ UNCHANGED <<ws, conns>>
    /\ UNCHANGED <<tokenVars, bus>>

\* self.on_<c>.subscribe(callback) and self.on_<c>.unsubscribe(callback)
BusSubscribe(c, callback) ==
    /\ bus' = [bus EXCEPT ![c] = EventSubscribe(@, callback)]
    /\ apiCall' = NoApiCall
    /\ UNCHANGED <<tokenVars, ws, conns>>

BusUnsubscribe(c, callback) ==
    /\ bus' = [bus EXCEPT ![c] = EventUnsubscribe(@, callback)]
    /\ apiCall' = NoApiCall
    /\ UNCHANGED <<tokenVars, ws, conns>>

\* The server closes connection k, or the connection breaks.
RemoteClose(k) ==
    /\ conns[k].state = "open"
    /\ conns' = [conns EXCEPT ![k].state = "closed", ![k].filters = <<>>]
    /\ apiCall' = NoApiCall
    /\ UNCHANGED <<tokenVars, ws, bus>>

\* One turn of the loop of _subscribe_thread on connection k: recv returns
\* `frame`, loads parses it and trigger invokes the callbacks of the
\* channel's Event in the order `snapshot`; the callbacks in `raisers`
\* raise.  A parse error or a raising callback ends the thread.
ThreadReceive(k, frame, snapshot, raisers) ==
    /\ conns[k].thread = "recv"
    /\ conns[k].state = "open"
    /\ conns' = IF loads(frame) = JSONDecodeError \/ Raised(snapshot, raisers)
                THEN [conns EXCEPT ![k] = Returned(k, "Exception")]
                ELSE conns
    /\ apiCall' = NoApiCall
    /\ UNCHANGED <<tokenVars, ws, bus>>

\* recv on a connection that is closed raises ConnectionClosed and the
\* thread returns.
ThreadConnectionClosed(k) ==
    /\ conns[k].thread = "recv"
    /\ conns[k].state = "closed"
    /\ conns' = [conns EXCEPT ![k] = Returned(k, "ConnectionClosed")]
    /\ apiCall' = NoApiCall
    /\ UNCHANGED <<tokenVars, ws, bus>>

\* The unsubscribe_ calls of close_web_socket, in the order of lines 426-434.
CloseOrder ==
    <<"limits", "portfolio", "executions", "transactions", "quotes",
      "last_candle", "order_book", "trades", "margins">>

\* unsubscribe_<c>() on the handles w and the connections cs: what it
\* leaves of both.
UnsubscribeEffect(w, cs, c) ==
    IF IsSubscribed(w[c]) /\ w[c] # NoConn
    THEN [ws |-> [w EXCEPT ![c] = NoConn],
          conns |-> [cs EXCEPT ![w[c]] =
                        IF @.thread \in {"ConnectionClosed", "Exception"}
                        THEN Free
                        ELSE [@ EXCEPT !.state = CloseState(@),
                                       !.filters = IF CloseState(@) = "open"
                                                   THEN @ ELSE <<>>]]]
    ELSE [ws |-> w, conns |-> cs]

RECURSIVE CloseAll(_, _, _)
CloseAll(w, cs, order) ==
    IF order = <<>>
    THEN [ws |-> w, conns |-> cs]
    ELSE LET r == UnsubscribeEffect(w, cs, Head(order))
         IN CloseAll(r.ws, r.conns, Tail(order))

\* close_web_socket(), also the body of __exit__ and of __del__.  The call
\* records the channels whose connection it found open.
close_web_socket ==
    LET r == CloseAll(ws, conns, CloseOrder)
    IN /\ ws' = r.ws
       /\ conns' = r.conns
       /\ apiCall' = [op |-> "close_web_socket", chan |-> "-", raised |-> FALSE,
                      cause |-> "none",
                      open |-> {c \in Channels :
                                   ws[c] # NoConn /\ conns[ws[c]].state = "open"}]
       /\ UNCHANGED <<tokenVars, bus>>

(***************************************************************************)
(* subscribe_<channel> called by several threads at once, statement by     *)
(* statement: line 103 tests the handle, line 105 connects and assigns the *)
(* handle, line 106 starts a receive thread on the connection the handle   *)
(* refers to by then.  A connection has thread "-" until a thread is       *)
(* started on it.                                                          *)
(***************************************************************************)
\* Line 103.
SubscriberCheck(i, c) ==
    /\ subscriber[i] = "idle"
    /\ subscriber' = [subscriber EXCEPT ![i] = IF NotSubscribed(ws[c])
                                               THEN "connect" ELSE "idle"]
    /\ apiCall' = NoApiCall
    /\ UNCHANGED <<tokenVars, ws, conns, bus>>

\* Line 105, for a token request that is granted and a server that accepts.
SubscriberConnect(i, c, expires_in) ==
    LET r == get_access_token(access_token, access_token_expired, now,
                              "ok", Token(requests + 1), expires_in)
        k == CHOOSE j \in Slots : conns[j] = Free /\ \A n \in 1..(j - 1) : conns[n] # Free
    IN /\ subscriber[i] = "connect"
       /\ \E j \in Slots : conns[j] = Free
       /\ HeadersEffect(r)
       /\ conns' = [conns EXCEPT ![k] = [NewConn(c) EXCEPT !.thread = "-"]]
       /\ ws' = [ws EXCEPT ![c] = k]
       /\ subscriber' = [subscriber EXCEPT ![i] = "start"]
       /\ apiCall' = NoApiCall
       /\ UNCHANGED bus

\* Line 106.  A thread started on a handle that is None by then ends at
\* once on the AttributeError of its recv (lines 411-413).
SubscriberStart(i, c) ==
    /\ subscriber[i] = "start"
    /\ conns' = IF ws[c] # NoConn /\ conns[ws[c]].thread = "-"
                THEN [conns EXCEPT ![ws[c]].thread = "recv"]
                ELSE conns
    /\ subscriber' = [subscriber EXCEPT ![i] = "idle"]
    /\ apiCall' = NoApiCall
    /\ UNCHANGED <<tokenVars, ws, bus>>

(***************************************************************************)
(* The receive thread step by step.  The server puts numbered frames on    *)
(* the wire of an open connection (frame n is the n-th text it sends, all  *)
(* of them JSON); recv returns them in the order of the wire; trigger      *)
(* takes its snapshot and then calls the callbacks one at a time, so that  *)
(* the calls of other threads can fall between two callbacks.  Frames      *)
(* still on the wire are lost when the connection closes.                  *)
(***************************************************************************)
NoCur == [frame |-> 0, pending |-> <<>>]

RxInit ==
    /\ wire = [k \in Slots |-> <<>>]
    /\ cur = [k \in Slots |-> NoCur]
    /\ log = [cb \in Callbacks |-> <<>>]
    /\ framesSent = 0

\* ws.recv() on a wire that holds frames: the frame returned and the frames
\* left (Recv_newest: the faulty variant that returns the newest frame).
Recv_newest(q) == [frame |-> q[Len(q)], rest |-> SubSeq(q, 1, Len(q) - 1)]

Recv(q) == [frame |-> Head(q), rest |-> Tail(q)]

\* The server sends its next frame on connection k.
ServerSend(k) ==
    /\ conns[k].state = "open"
    /\ framesSent < MaxFrames
    /\ framesSent' = framesSent + 1
    /\ wire' = [wire EXCEPT ![k] = Append(@, framesSent + 1)]
    /\ apiCall' = NoApiCall
    /\ UNCHANGED <<tokenVars, ws, conns, bus, cur, log>>

\* The frames on the wire of connection k are gone once it is closed.
Drop(k) == IF k = NoConn THEN wire ELSE [wire EXCEPT ![k] = <<>>]

\* Lines 405-408 up to the snapshot of trigger: recv returns a frame, loads
\* parses it and trigger copies the callbacks of the Event.
ThreadRecv(k, snapshot) ==
    /\ conns[k].thread = "recv"
    /\ conns[k].state = "open"
    /\ wire[k] # <<>>
    /\ wire' = [wire EXCEPT ![k] = Recv(@).rest]
    /\ IF snapshot = <<>>
       THEN UNCHANGED <<conns, cur>>
       ELSE /\ conns' = [conns EXCEPT ![k].thread = "trigger"]
            /\ cur' = [cur EXCEPT ![k] = [frame |-> Recv(wire[k]).frame,
                                          pending |-> snapshot]]
    /\ apiCall' = NoApiCall
    /\ UNCHANGED <<tokenVars, ws, bus, log, framesSent>>

\* Line 552 calls the callback inside no try block, so an exception of the
\* callback leaves trigger (Propagates_caught: the faulty variant in which
\* the bus swallows it).
Propagates_caught(raises) == FALSE

Propagates(raises) == raises

\* Line 552: the thread of connection k calls the next callback of the
\* snapshot, and is back in recv after the last one.  A callback that
\* raises ends the trigger, and the thread at lines 411-413.
ThreadInvoke(k, raises) ==
    /\ conns[k].thread = "trigger"
    /\ log' = [log EXCEPT ![Head(cur[k].pending)] = Append(@, <<k, cur[k].frame>>)]
    /\ IF Propagates(raises)
       THEN /\ cur' = [cur EXCEPT ![k] = NoCur]
            /\ conns' = [conns EXCEPT ![k] = Returned(k, "Exception")]
       ELSE IF Tail(cur[k].pending) = <<>>
       THEN /\ cur' = [cur EXCEPT ![k] = NoCur]
            /\ conns' = [conns EXCEPT ![k].thread = "recv"]
       ELSE /\ cur' = [cur EXCEPT ![k].pending = Tail(@)]
            /\ UNCHANGED conns
    /\ apiCall' = ApiCall("callback", conns[k].chan, raises, "callback")
    /\ UNCHANGED <<tokenVars, ws, bus, wire, framesSent>>

(***************************************************************************)
(* Specifications.                                                         *)
(***************************************************************************)
Init ==
    TokenInit /\ KeyInit /\ CheckInit /\ EvInit /\ WsInit /\ RxInit /\ RaceInit /\ OrderInit

\* The caller of one run works with a single channel, any of the nine: an
\* operation on channel c is taken while no other channel has a connection,
\* a handle or a callback.
OnlyChannel(c) ==
    /\ \A k \in Slots : conns[k] = Free \/ conns[k].chan = c
    /\ \A d \in Channels \ {c} : ws[d] = NoConn /\ bus[d] = {}

SubscribeAny ==
    \E c \in Channels, i \in Instruments, outcome \in PostOutcomes,
       expires_in \in ExpiresIn, connects \in BOOLEAN :
        OnlyChannel(c) /\ Subscribe(c, i, outcome, expires_in, connects)

UnsubscribeAny == \E c \in Channels : OnlyChannel(c) /\ Unsubscribe(c)

BusSubscribeAny ==
    \E c \in Channels, cb \in Callbacks : OnlyChannel(c) /\ BusSubscribe(c, cb)

BusUnsubscribeAny ==
    \E c \in Channels, cb \in Callbacks : OnlyChannel(c) /\ BusUnsubscribe(c, cb)

RemoteCloseAny == \E k \in Slots : RemoteClose(k)

ThreadReceiveAny ==
    \E k \in Slots, frame \in Frames, raisers \in SUBSET Callbacks :
        /\ conns[k] # Free
        /\ \E snapshot \in Snapshots(bus[conns[k].chan]) :
               ThreadReceive(k, frame, snapshot, raisers)

ThreadConnectionClosedAny == \E k \in Slots : ThreadConnectionClosed(k)

Next ==
    \/ SubscribeAny /\ UNCHANGED <<keyVars, checkVars, evVars, rxVars, raceVars, sent>>
    \/ UnsubscribeAny /\ UNCHANGED <<keyVars, checkVars, evVars, rxVars, raceVars, sent>>
    \/ BusSubscribeAny /\ UNCHANGED <<keyVars, checkVars, evVars, rxVars, raceVars, sent>>
    \/ BusUnsubscribeAny /\ UNCHANGED <<keyVars, checkVars, evVars, rxVars, raceVars, sent>>
    \/ RemoteCloseAny /\ UNCHANGED <<keyVars, checkVars, evVars, rxVars, raceVars, sent>>
    \/ ThreadReceiveAny /\ UNCHANGED <<keyVars, checkVars, evVars, rxVars, raceVars, sent>>
    \/ ThreadConnectionClosedAny /\ UNCHANGED <<keyVars, checkVars, evVars, rxVars, raceVars, sent>>

Spec == Init /\ [][Next]_vars

\* A receive thread whose recv can raise is scheduled and ends.
FairSpec ==
    Spec /\ \A k \in Slots :
               WF_vars(ThreadConnectionClosed(k) /\ UNCHANGED <<keyVars, checkVars, evVars, rxVars, raceVars, sent>>)

\* The token cache under direct get_access_token calls and the clock.
TokenNext ==
    \/ GetAccessToken /\ UNCHANGED <<keyVars, checkVars, evVars, wsVars, rxVars, raceVars, sent>>
    \/ Tick /\ UNCHANGED <<keyVars, checkVars, evVars, wsVars, rxVars, raceVars, sent>>

SpecToken == Init /\ [][TokenNext]_vars

\* The keyring under save, clear and load calls.
KeyNext ==
    \/ SaveAny /\ UNCHANGED <<tokenVars, checkVars, evVars, wsVars, rxVars, raceVars, sent>>
    \/ ClearAny /\ UNCHANGED <<tokenVars, checkVars, evVars, wsVars, rxVars, raceVars, sent>>
    \/ LoadAny /\ UNCHANGED <<tokenVars, checkVars, evVars, wsVars, rxVars, raceVars, sent>>

SpecKeyring == Init /\ [][KeyNext]_vars

\* _check_result applied to a response.
CheckResult ==
    \E resp \in Responses :
        /\ response' = resp
        /\ result' = _check_result(resp)

CheckNext == CheckResult /\ UNCHANGED <<tokenVars, keyVars, evVars, wsVars, rxVars, raceVars, sent>>

SpecCheck == Init /\ [][CheckNext]_vars

\* One Event under subscribe, unsubscribe and trigger calls.
EvSubscribe ==
    \E cb \in Callbacks :
        /\ registered[cb] < MaxRegistrations
        /\ callbacks' = EventSubscribe(callbacks, cb)
        /\ registered' = [registered EXCEPT ![cb] = @ + 1]
        /\ removed' = removed \ {cb}
        /\ triggered' = NoTrigger

EvUnsubscribe ==
    \E cb \in Callbacks :
        /\ callbacks' = EventUnsubscribe(callbacks, cb)
        /\ registered' = [registered EXCEPT ![cb] = 0]
        /\ removed' = IF registered[cb] > 0 THEN removed \cup {cb} ELSE removed
        /\ triggered' = NoTrigger

EvTrigger ==
    \E arg \in Args, raisers \in SUBSET Callbacks :
        \E snapshot \in Snapshots(callbacks) :
            /\ triggered' = [arg |-> arg, calls |-> Invoked(snapshot, raisers),
                             raised |-> Raised(snapshot, raisers)]
            /\ UNCHANGED <<callbacks, registered, removed>>

EvNext ==
    \/ EvSubscribe /\ UNCHANGED <<tokenVars, keyVars, checkVars, wsVars, rxVars, raceVars, sent>>
    \/ EvUnsubscribe /\ UNCHANGED <<tokenVars, keyVars, checkVars, wsVars, rxVars, raceVars, sent>>
    \/ EvTrigger /\ UNCHANGED <<tokenVars, keyVars, checkVars, wsVars, rxVars, raceVars, sent>>

SpecEvent == Init /\ [][EvNext]_vars

\* One channel with its receive threads taken step by step, the token
\* endpoint and the server answering.
DeliveryChannel == "executions"

\* The connections followed at a time: the one of the handle and one
\* closed before it whose thread has not returned yet.
DeliverySlots == {1, 2}

DeliverSubscribe ==
    /\ \E k \in DeliverySlots : conns[k] = Free
    /\ Subscribe(DeliveryChannel, CHOOSE i \in Instruments : TRUE, "ok",
                 CHOOSE e \in ExpiresIn : TRUE, TRUE)
    /\ UNCHANGED rxVars

DeliverUnsubscribe ==
    /\ Unsubscribe(DeliveryChannel)
    /\ wire' = Drop(ws[DeliveryChannel])
    /\ UNCHANGED <<cur, log, framesSent>>

DeliverBusSubscribe ==
    \E cb \in Callbacks : BusSubscribe(DeliveryChannel, cb) /\ UNCHANGED rxVars

DeliverBusUnsubscribe ==
    \E cb \in Callbacks : BusUnsubscribe(DeliveryChannel, cb) /\ UNCHANGED rxVars

DeliverServerSend == \E k \in Slots : ServerSend(k)

DeliverRemoteClose ==
    \E k \in Slots : RemoteClose(k) /\ wire' = Drop(k) /\ UNCHANGED <<cur, log, framesSent>>

DeliverThreadRecv ==
    \E k \in Slots :
        /\ conns[k] # Free
        /\ \E snapshot \in Snapshots(bus[conns[k].chan]) : ThreadRecv(k, snapshot)

DeliverThreadInvoke == \E k \in Slots, raises \in BOOLEAN : ThreadInvoke(k, raises)

DeliverThreadConnectionClosed ==
    \E k \in Slots : ThreadConnectionClosed(k) /\ UNCHANGED rxVars

DeliverNext ==
    \/ DeliverSubscribe /\ UNCHANGED <<keyVars, checkVars, evVars, raceVars, sent>>
    \/ DeliverUnsubscribe /\ UNCHANGED <<keyVars, checkVars, evVars, raceVars, sent>>
    \/ DeliverBusSubscribe /\ UNCHANGED <<keyVars, checkVars, evVars, raceVars, sent>>
    \/ DeliverBusUnsubscribe /\ UNCHANGED <<keyVars, checkVars, evVars, raceVars, sent>>
    \/ DeliverServerSend /\ UNCHANGED <<keyVars, checkVars, evVars, raceVars, sent>>
    \/ DeliverRemoteClose /\ UNCHANGED <<keyVars, checkVars, evVars, raceVars, sent>>
    \/ DeliverThreadRecv /\ UNCHANGED <<keyVars, checkVars, evVars, raceVars, sent>>
    \/ DeliverThreadInvoke /\ UNCHANGED <<keyVars, checkVars, evVars, raceVars, sent>>
    \/ DeliverThreadConnectionClosed /\ UNCHANGED <<keyVars, checkVars, evVars, raceVars, sent>>

SpecDeliver == Init /\ [][DeliverNext]_vars

\* The keyring when the storage can fail during a save, a clear or a load.
\* What a fault does depends on the number of chunks, not on their
\* characters: the tokens saved are the strings of one character.
FaultSecrets == {t \in Secrets : \A i \in 1..Len(t) : t[i] = "x"}

FaultNext ==
    \/ (\E u \in Usernames, t \in FaultSecrets, c \in ChunkSizes, f \in Faults :
           SaveWithFault(u, t, c, f))
       /\ UNCHANGED <<tokenVars, checkVars, evVars, wsVars, rxVars, raceVars, sent>>
    \/ (\E u \in Usernames, f \in Faults : ClearWithFault(u, f))
       /\ UNCHANGED <<tokenVars, checkVars, evVars, wsVars, rxVars, raceVars, sent>>
    \/ (\E u \in Usernames, f \in Faults : LoadWithFault(u, f))
       /\ UNCHANGED <<tokenVars, checkVars, evVars, wsVars, rxVars, raceVars, sent>>

SpecKeyFault == Init /\ [][FaultNext]_vars

\* Concurrent callers of get_access_token and the clock.
RaceNext ==
    \/ (\E i \in Callers : CallerCheck(i))
       /\ UNCHANGED <<keyVars, checkVars, evVars, wsVars, rxVars, subscriber, sent>>
    \/ (\E i \in Callers : CallerPost(i))
       /\ UNCHANGED <<keyVars, checkVars, evVars, wsVars, rxVars, subscriber, sent>>
    \/ (\E i \in Callers : CallerSetToken(i))
       /\ UNCHANGED <<keyVars, checkVars, evVars, wsVars, rxVars, subscriber, sent>>
    \/ (\E i \in Callers : CallerSetExpired(i))
       /\ UNCHANGED <<keyVars, checkVars, evVars, wsVars, rxVars, subscriber, sent>>
    \/ (\E i \in Callers : CallerReturn(i))
       /\ UNCHANGED <<keyVars, checkVars, evVars, wsVars, rxVars, subscriber, sent>>
    \/ Tick /\ UNCHANGED <<keyVars, checkVars, evVars, wsVars, rxVars, raceVars, sent>>

SpecRace == Init /\ [][RaceNext]_vars

\* Concurrent callers of subscribe_<channel> on one channel, a caller of its
\* unsubscribe_ and of close_web_socket, the server and the receive threads.
SubscriberNext ==
    \/ (\E i \in Callers : SubscriberCheck(i, DeliveryChannel))
       /\ UNCHANGED <<keyVars, checkVars, evVars, rxVars, caller, issued, sent>>
    \/ (\E i \in Callers : SubscriberConnect(i, DeliveryChannel, CHOOSE e \in ExpiresIn : TRUE))
       /\ UNCHANGED <<keyVars, checkVars, evVars, rxVars, caller, issued, sent>>
    \/ (\E i \in Callers : SubscriberStart(i, DeliveryChannel))
       /\ UNCHANGED <<keyVars, checkVars, evVars, rxVars, caller, issued, sent>>
    \/ Unsubscribe(DeliveryChannel)
       /\ UNCHANGED <<keyVars, checkVars, evVars, rxVars, raceVars, sent>>
    \/ (\E k \in Slots : RemoteClose(k))
       /\ UNCHANGED <<keyVars, checkVars, evVars, rxVars, raceVars, sent>>
    \/ (\E k \in Slots : ThreadConnectionClosed(k))
       /\ UNCHANGED <<keyVars, checkVars, evVars, rxVars, raceVars, sent>>
    \/ close_web_socket /\ UNCHANGED <<keyVars, checkVars, evVars, rxVars, raceVars, sent>>

SpecSubscribers == Init /\ [][SubscriberNext]_vars

\* Saves of secrets of up to MaxChunks chunks of one character, and clears,
\* under the two usernames.
NamesNext ==
    \/ (\E u \in Names, n \in 0..MaxChunks : SaveNamed(u, [i \in 1..n |-> "x"], 1))
       /\ UNCHANGED <<tokenVars, checkVars, evVars, wsVars, rxVars, raceVars, sent>>
    \/ (\E u \in Names : ClearNamed(u))
       /\ UNCHANGED <<tokenVars, checkVars, evVars, wsVars, rxVars, raceVars, sent>>

SpecNames == Init /\ [][NamesNext]_vars

\* Order calls with and without a client order id of the caller's own.
OrderNext ==
    (\E method \in {"create_order", "cancel_order", "edit_order"},
        given \in {None, <<"id", 1>>, <<"id", 2>>} : OrderCall(method, given))
    /\ UNCHANGED <<tokenVars, keyVars, checkVars, evVars, wsVars, rxVars, raceVars>>

SpecOrders == Init /\ [][OrderNext]_vars

\* Any channels subscribed and unsubscribed side by side (each subscribe_
\* call one that connects), connections lost, and close_web_socket called
\* at any moment.
CloseNext ==
    \/ (\E c \in Channels :
            ws[c] = NoConn /\ Subscribe(c, "TQBR.SBER", "ok", 1, TRUE))
       /\ UNCHANGED <<keyVars, checkVars, evVars, rxVars, raceVars, sent>>
    \/ (\E c \in Channels : Unsubscribe(c))
       /\ UNCHANGED <<keyVars, checkVars, evVars, rxVars, raceVars, sent>>
    \/ RemoteCloseAny /\ UNCHANGED <<keyVars, checkVars, evVars, rxVars, raceVars, sent>>
    \/ ThreadConnectionClosedAny
       /\ UNCHANGED <<keyVars, checkVars, evVars, rxVars, raceVars, sent>>
    \/ close_web_socket /\ UNCHANGED <<keyVars, checkVars, evVars, rxVars, raceVars, sent>>

SpecClose == Init /\ [][CloseNext]_vars

(***************************************************************************)
(* Properties.                                                             *)
(***************************************************************************)
TokenCallStep == tokenCall'.seq # tokenCall.seq

\* C4: a token request is posted only when no token is cached or the clock
\* has reached access_token_expired, and a call made before the expiry of
\* the token last issued posts no request and returns that token.
C4_OneRefreshPerWindow ==
    [][/\ requests' # requests =>
            (access_token = None \/ now >= access_token_expired)
       /\ (TokenCallStep /\ lastIssued.tok # None /\ now < lastIssued.exp) =>
            (requests' = requests /\ tokenCall'.ret = lastIssued.tok
             /\ tokenCall'.sent = FALSE)]_vars

\* A second call, later than the one that obtained the token and before its
\* expiry, returned the cached token without a request.
C4_Witness ==
    /\ lastIssued.tok # None
    /\ tokenCall.at > lastIssued.at
    /\ tokenCall.at < lastIssued.exp
    /\ tokenCall.sent = FALSE
    /\ tokenCall.ret = lastIssued.tok


\* The chunk a save of `token` with chunk size `size` is to leave at `index`:
\* the characters index*size .. index*size + size - 1, None past the end.
ExpectedChunk(token, size, index) ==
    IF index * size < Len(token)
    THEN SubSeq(token, index * size + 1, Min(index * size + size, Len(token)))
    ELSE None

ExpectedKeys(username, token, size) ==
    {<<Service, KeyOf(username, i)>> : i \in {j \in 0..Len(token) : j * size < Len(token)}}

\* The load just made followed a save of token s for the same username.
LoadedAfterSave(s) ==
    /\ loaded # NoLoad
    /\ lastSaved[loaded.username].op = "save"
    /\ lastSaved[loaded.username].token = s

\* C5 as stated: a load that follows a save returns the saved secret,
\* whatever its length.
C5_RoundTripAnySecret ==
    \A s \in Secrets : LoadedAfterSave(s) => loaded.value = <<"str", s>>

\* C5 as amended: a load that follows a save of a non-empty secret returns
\* that secret, and a load that follows a save of the empty secret returns
\* None.
C5_RoundTripNonEmpty ==
    \A s \in Secrets :
        LoadedAfterSave(s) =>
            loaded.value = IF s = <<>> THEN None ELSE <<"str", s>>

\* A secret of several chunks, the last one shorter, was saved and loaded.
C5_Witness ==
    /\ loaded # NoLoad
    /\ lastSaved[loaded.username].op = "save"
    /\ Len(lastSaved[loaded.username].token) = 3
    /\ lastSaved[loaded.username].size = 2
    /\ loaded.value = <<"str", lastSaved[loaded.username].token>>

\* The keyring holds, for username u, exactly the chunks of its last save
\* (none after a clear or before any save).
ChunksOfLastSave(u) ==
    LET last == lastSaved[u]
    IN /\ \A i \in 0..(MaxSecretLen + 1) :
              get_password(store, Service, KeyOf(u, i)) =
                  IF last.op = "save" THEN ExpectedChunk(last.token, last.size, i)
                  ELSE None
       /\ last.op = "save" =>
              \A k \in DOMAIN store : k \in ExpectedKeys(u, last.token, last.size)
       /\ last.op # "save" => DOMAIN store = {}

\* C6 as stated: the stored chunks are those of the last save and a load
\* returns the last saved secret (None after a clear).
C6_LastSaveOnly ==
    /\ \A u \in Usernames : ChunksOfLastSave(u)
    /\ loaded # NoLoad =>
          loaded.value = IF lastSaved[loaded.username].op = "save"
                         THEN <<"str", lastSaved[loaded.username].token>>
                         ELSE None

\* C6 as amended: the stored chunks are those of the last save, and a load
\* returns the last saved secret when that secret is non-empty and None when
\* it is empty, after a clear or before any save.
C6_LastSaveOnlyNonEmpty ==
    /\ \A u \in Usernames : ChunksOfLastSave(u)
    /\ loaded # NoLoad =>
          loaded.value = IF /\ lastSaved[loaded.username].op = "save"
                            /\ lastSaved[loaded.username].token # <<>>
                         THEN <<"str", lastSaved[loaded.username].token>>
                         ELSE None

\* A one-chunk secret was saved over a longer one and loaded back, and no
\* second chunk is left.
C6_Witness ==
    /\ loaded # NoLoad
    /\ lastSaved[loaded.username].op = "save"
    /\ Len(lastSaved[loaded.username].token) = 1
    /\ loaded.value = <<"str", lastSaved[loaded.username].token>>
    /\ get_password(store, Service, KeyOf(loaded.username, 1)) = None

\* A subscribe_<c> call was the last step; likewise unsubscribe_<c>.
Subscribed(c) == apiCall.op = "subscribe" /\ apiCall.chan = c

Unsubscribed(c) == apiCall.op = "unsubscribe" /\ apiCall.chan = c

OpenConns(c) == {k \in Slots : conns[k].chan = c /\ conns[k].state = "open"}

\* C1: once the receive thread of a connection has returned, on
\* ConnectionClosed or on another exception, the handle of its channel is
\* None.
C1_HandleNullAfterTaskEnd ==
    \A k \in Slots :
        conns[k].thread \in {"ConnectionClosed", "Exception"} =>
            ws[conns[k].chan] = NoConn

\* C2: a subscribe call that returns normally on a channel whose receive
\* thread has returned opens a new connection with a running receive thread,
\* and leaves the callbacks of the channel's Event in place.
C2_ResubscribeReconnects ==
    [][\A c \in Channels :
          (/\ Subscribed(c)' /\ ~apiCall'.raised
           /\ ws[c] # NoConn
           /\ conns[ws[c]].thread \in {"ConnectionClosed", "Exception"}) =>
              /\ ws'[c] # NoConn
              /\ conns[ws'[c]] = Free
              /\ conns'[ws'[c]].state = "open"
              /\ conns'[ws'[c]].thread = "recv"
              /\ bus'[c] = bus[c]]_vars

\* C3: every open connection is the one its channel's handle refers to, so a
\* channel has at most one; and a subscribe call on a channel whose handle is
\* set opens no connection and starts no thread: on a channel without a
\* request it changes nothing, and on a filter channel it appends exactly one
\* request to the requests sent on the open connection of the handle.
C3_SubscribeConnectedNoReconnect ==
    /\ [](\A k \in Slots : conns[k].state = "open" => ws[conns[k].chan] = k)
    /\ [][\A c \in Channels :
            (Subscribed(c)' /\ ws[c] # NoConn) =>
                /\ ws' = ws
                /\ UNCHANGED <<bus, access_token, access_token_expired>>
                /\ \A k \in Slots :
                      /\ conns'[k].chan = conns[k].chan
                      /\ conns'[k].state = conns[k].state
                      /\ conns'[k].thread = conns[k].thread
                      /\ k # ws[c] => conns'[k] = conns[k]
                /\ c \notin FilterChannels => UNCHANGED conns /\ ~apiCall'.raised
                /\ (c \in FilterChannels /\ conns[ws[c]].state = "open") =>
                      /\ ~apiCall'.raised
                      /\ \E i \in Instruments :
                            conns'[ws[c]].filters =
                                Append(conns[ws[c]].filters, Request(c, i))]_vars

\* Two subscribe_quotes calls with different instruments: one open
\* connection, two requests sent on it.
C3_Witness ==
    /\ Subscribed("quotes")
    /\ ws["quotes"] # NoConn
    /\ Cardinality(OpenConns("quotes")) = 1
    /\ \E k \in OpenConns("quotes") :
          /\ ws["quotes"] = k
          /\ Len(conns[k].filters) = 2
          /\ conns[k].filters[1].instruments # conns[k].filters[2].instruments
          /\ conns[k].filters[2].dataType = 3

\* What _check_result is to return for the last response, by the four cases
\* of the contract.
Body == Decode(Content(response))

ParsedBody == IF Body = UnicodeDecodeError THEN JSONDecodeError ELSE loads(Body[2])

\* C7: no response gives None; a status other than 200 gives None whatever
\* the body; status 200 gives the parsed JSON value when the body parses and
\* the decoded text when it does not.
C7_FourWayMapping ==
    response # NotCalled =>
        IF response = None THEN result = None
        ELSE /\ StatusCode(response) # StatusOK => result = None
             /\ (StatusCode(response) = StatusOK /\ ParsedBody # JSONDecodeError) =>
                    result = ParsedBody
             /\ (StatusCode(response) = StatusOK /\ ParsedBody = JSONDecodeError) =>
                    Body # UnicodeDecodeError /\ result = Body

\* C8: the result is None only when there was no response or its status was
\* not 200.
C8_NoneOnlyOnError ==
    (response # NotCalled /\ result = None) =>
        (response = None \/ StatusCode(response) # StatusOK)

\* C9: a trigger invokes no callback twice and none that is not registered;
\* when no callback raises it invokes every registered callback; and a
\* callback removed by unsubscribe is not invoked.
C9_TriggerEachOnce ==
    triggered # NoTrigger =>
        LET calls == triggered.calls
        IN /\ \A i, j \in DOMAIN calls : calls[i] = calls[j] => i = j
           /\ \A i \in DOMAIN calls : registered[calls[i]] > 0
           /\ \A cb \in removed : \A i \in DOMAIN calls : calls[i] # cb
           /\ ~triggered.raised =>
                 \A cb \in Callbacks :
                     registered[cb] > 0 => \E i \in DOMAIN calls : calls[i] = cb

\* g was registered twice and f was removed; trigger("y") invoked g once and
\* not f.
C9_Witness ==
    /\ "f" \in removed
    /\ registered["g"] = 2
    /\ triggered.arg = "y"
    /\ triggered.calls = <<"g">>
    /\ ~triggered.raised

\* The receive thread of connection k is in recv on a connection that
\* unsubscribe has closed.
Orphaned(k) ==
    /\ conns[k].state = "closed"
    /\ conns[k].thread = "recv"
    /\ ws[conns[k].chan] # k

\* C10: an unsubscribe call on a channel whose handle is set closes that
\* connection and sets the handle to None without raising and without
\* waiting for the receive thread; and the receive thread of a connection
\* closed that way eventually returns, whatever the caller does.
C10_UnsubscribeEndsTask ==
    /\ [][\A c \in Channels :
            (Unsubscribed(c)' /\ ws[c] # NoConn) =>
                /\ ws'[c] = NoConn
                /\ ~apiCall'.raised
                /\ conns'[ws[c]].state # "open"
                /\ conns[ws[c]].thread = "recv" => conns'[ws[c]].thread = "recv"]_vars
    /\ \A k \in Slots : Orphaned(k) ~> (conns[k].thread # "recv")

\* unsubscribe_order_book has just closed the connection and cleared the
\* handle; the receive thread has not returned yet.
C10_Witness ==
    /\ Unsubscribed("order_book")
    /\ ws["order_book"] = NoConn
    /\ \E k \in Slots : conns[k].chan = "order_book" /\ Orphaned(k)

\* C11: an unsubscribe call on a channel whose handle is None raises nothing
\* and leaves every handle, every connection with its receive thread,
\* every Event and the token cache as they were.
C11_UnsubscribeDisconnectedNoOp ==
    [][\A c \in Channels :
          (Unsubscribed(c)' /\ ws[c] = NoConn) =>
              /\ ~apiCall'.raised
              /\ UNCHANGED <<ws, conns, bus, access_token, access_token_expired>>]_vars

\* unsubscribe_limits was called before any connection was ever opened.
C11_Witness ==
    /\ Unsubscribed("limits")
    /\ ~apiCall.raised
    /\ access_token = None
    /\ \A c \in Channels : ws[c] = NoConn
    /\ \A k \in Slots : conns[k] = Free

\* C12: every callback is invoked with the frames of one connection in the
\* order the server sent them, each frame at most once.
C12_FramesInWireOrder ==
    \A cb \in Callbacks :
        \A i, j \in DOMAIN log[cb] :
            (i < j /\ log[cb][i][1] = log[cb][j][1]) => log[cb][i][2] < log[cb][j][2]

\* Two callbacks were each invoked with frame 1 and then frame 2 of the same
\* connection.
C12_Witness ==
    \E k \in Slots :
        \A cb \in Callbacks : log[cb] = <<(<<k, 1>>), (<<k, 2>>)>>

\* C13: after a call whose token request was answered with a status other
\* than 200, access_token is None, access_token_expired is 0 and the call
\* returned None without raising.
C13_RefusedClearsCache ==
    tokenCall.answer = "refused" =>
        /\ access_token = None
        /\ access_token_expired = 0
        /\ tokenCall.ret = None
        /\ ~tokenCall.raised

\* A token had been issued and has expired; the refresh was refused.
C13_Witness ==
    /\ tokenCall.answer = "refused"
    /\ lastIssued.tok # None
    /\ tokenCall.at >= lastIssued.exp
    /\ access_token = None
    /\ access_token_expired = 0

\* C14: after a call whose token request failed at transport level, the
\* cache is cleared and the call returned None without raising.
C14_TransportFailureContained ==
    tokenCall.answer \in {"ssl", "connerr"} =>
        /\ access_token = None
        /\ access_token_expired = 0
        /\ tokenCall.ret = None
        /\ ~tokenCall.raised

\* C15: a subscribe call that needed a connection and whose token request
\* was answered with a status other than 200 returns without raising and
\* leaves the handle None.
C15_RefusedTokenSurfacesAsNone ==
    \A c \in Channels :
        (Subscribed(c) /\ apiCall.cause = "refused") =>
            ~apiCall.raised /\ ws[c] = NoConn

\* C16: a subscribe call whose connect failed at transport level returns
\* without raising and leaves the handle None.
C16_ConnectFailureContained ==
    \A c \in Channels :
        (Subscribed(c) /\ apiCall.cause = "connect") =>
            ~apiCall.raised /\ ws[c] = NoConn

\* C17: a method call that met a fault of the storage raised nothing, and a
\* load that met one returned None.
C17_StorageFailureNeverRaises ==
    keyCall.met # "none" =>
        /\ ~keyCall.raised
        /\ keyCall.op = "load" => loaded.value = None

C19_RaceOnlyRedundantRefresh ==
    /\ \A i \in Callers :
          (caller[i].done /\ ~caller[i].raised) =>
             /\ caller[i].ret = None => caller[i].answer \in {"refused", "ssl"}
             /\ caller[i].ret # None =>
                    \E n \in 1..MaxRequests :
                        caller[i].ret = Token(n) /\ issued[n] > caller[i].at
    /\ (\A i \in Callers : caller[i].pc = "idle") =>
          \/ access_token = None /\ access_token_expired = 0
          \/ \E n \in 1..MaxRequests :
                access_token = Token(n) /\ access_token_expired = issued[n]

\* The receive threads of channel c that have not returned.
LiveTasks(c) ==
    {k \in Slots : conns[k].chan = c /\ conns[k].thread \in {"recv", "trigger"}}

\* C20 as stated: every channel has at most one receive thread alive, and
\* has one only while its handle is set.
C20_OneLiveTaskPerChannel ==
    \A c \in Channels :
        /\ Cardinality(LiveTasks(c)) <= 1
        /\ LiveTasks(c) # {} => ws[c] # NoConn

\* C20 as the code has it: a receive thread alive on an open connection is
\* the thread of the connection its channel's handle refers to, so a channel
\* has at most one of them; unsubscribe does not wait for the thread of the
\* connection it closes, and that thread is alive, beside the handle or a
\* new connection of the channel, until its recv raises.
C20_OneLiveTaskPerOpenConnection ==
    \A c \in Channels :
        /\ \A k \in LiveTasks(c) : conns[k].state = "open" => ws[c] = k
        /\ Cardinality({k \in LiveTasks(c) : conns[k].state = "open"}) <= 1

\* A channel was unsubscribed and subscribed again before the thread of the
\* closed connection returned: two receive threads of the channel are alive.
C20_Witness ==
    \E c \in Channels :
        /\ Cardinality(LiveTasks(c)) = 2
        /\ ws[c] # NoConn
        /\ conns[ws[c]].state = "open"

\* C21: when a callback raises during a trigger, the receive thread that
\* made the call returns with nothing left to deliver, no callback later in
\* the snapshot is invoked, and every handle and every other receive thread
\* is as before; a thread that has returned invokes nothing.
C21_CallbackRaiseEndsTask ==
    [][\A k \in Slots :
          /\ (apiCall'.op = "callback" /\ apiCall'.raised /\ conns[k].thread = "trigger"
                /\ cur'[k] # cur[k]) =>
                /\ conns'[k].thread \notin {"recv", "trigger"}
                /\ cur'[k] = NoCur
                /\ \A cb \in Callbacks \ {Head(cur[k].pending)} : log'[cb] = log[cb]
                /\ ws' = ws
                /\ bus' = bus
                /\ \A j \in Slots \ {k} : conns'[j] = conns[j] /\ cur'[j] = cur[j]
          /\ conns[k].thread \notin {"recv", "trigger"} =>
                \A cb \in Callbacks :
                    Len(log'[cb]) > Len(log[cb]) => log'[cb][Len(log'[cb])][1] # k]_vars

\* The first of two callbacks of a snapshot has raised: the thread has
\* returned on the exception, the second callback was not invoked, and the
\* thread of another connection is still alive.
C21_Witness ==
    \E k \in Slots : \E j \in Slots \ {k} :
        /\ apiCall.op = "callback"
        /\ apiCall.raised
        /\ conns[k].thread = "Exception"
        /\ ws[DeliveryChannel] = k
        /\ Cardinality(bus[DeliveryChannel]) = 2
        /\ \E cb \in Callbacks : log[cb] = <<>>
        /\ \E cb \in Callbacks : log[cb] = <<(<<k, 1>>)>>
        /\ conns[j].thread \in {"recv", "trigger"}

\* C22: a trigger takes as its snapshot every callback registered when it
\* starts, each once; subscribe and unsubscribe calls made on the bus while
\* the trigger runs neither end it nor change what it has left to call;
\* each call of a callback that does not raise is made to the next callback
\* of the snapshot, registered or not by then, and leaves the rest of the
\* snapshot to call; and no callback is invoked twice with one frame.
C22_TriggerIteratesSnapshot ==
    /\ [][\A k \in Slots :
            /\ (conns[k].thread = "recv" /\ conns'[k].thread = "trigger") =>
                  /\ {cur'[k].pending[i] : i \in DOMAIN cur'[k].pending}
                        = bus[conns[k].chan]
                  /\ Len(cur'[k].pending) = Cardinality(bus[conns[k].chan])
            /\ (conns[k].thread = "trigger" /\ bus' # bus) =>
                  /\ cur'[k] = cur[k]
                  /\ conns'[k].thread = "trigger"
                  /\ log' = log
            /\ (conns[k].thread = "trigger" /\ cur'[k] # cur[k] /\ ~apiCall'.raised) =>
                  /\ log'[Head(cur[k].pending)] =
                        Append(log[Head(cur[k].pending)], <<k, cur[k].frame>>)
                  /\ IF Tail(cur[k].pending) = <<>>
                     THEN conns'[k].thread = "recv"
                     ELSE /\ conns'[k].thread = "trigger"
                          /\ cur'[k].pending = Tail(cur[k].pending)
                          /\ cur'[k].frame = cur[k].frame]_vars
    /\ [](\A cb \in Callbacks :
            \A i, j \in DOMAIN log[cb] : log[cb][i] = log[cb][j] => i = j)

\* A trigger of two callbacks has just completed with the call of a
\* callback that was unsubscribed from the bus while the trigger ran.
C22_Witness ==
    \E k \in Slots :
        /\ apiCall.op = "callback"
        /\ ~apiCall.raised
        /\ conns[k].thread = "recv"
        /\ \A cb \in Callbacks : log[cb] = <<(<<k, 1>>)>>
        /\ Cardinality(bus[DeliveryChannel]) = 1

\* C23: whatever fault the storage met during the last save or clear of a
\* username, a load that meets no fault returns None, or the whole secret
\* of that save, or the whole value that was stored before that call; never
\* a part of the new secret and never chunks of an older one with it.
C23_PartialFailureReportsAbsent ==
    \A u \in Usernames :
        (keyCall.op = "load" /\ keyCall.met = "none" /\ loaded.username = u
            /\ lastSaved[u].op # "none") =>
            \/ loaded.value = None
            \/ loaded.value = lastSaved[u].before
            \/ lastSaved[u].op = "save" /\ loaded.value = <<"str", lastSaved[u].token>>

\* C24: after a save of a secret of length n with chunk size c the keyring
\* holds, for that username, exactly the keys username0 .. username(m-1)
\* with m = ceil(n/c); every chunk but the last is c characters long and
\* the last one between 1 and c.
C24_SaveWritesCeilChunks ==
    \A u \in Usernames :
        (keyCall.op = "save" /\ lastSaved[u].op = "save") =>
            LET n == Len(lastSaved[u].token)
                c == lastSaved[u].size
                m == (n + c - 1) \div c
            IN /\ DOMAIN store = {<<Service, u \o Str(i)>> : i \in 0..(m - 1)}
               /\ \A i \in 0..(m - 2) :
                     Len(store[<<Service, u \o Str(i)>>]) = c
               /\ m > 0 =>
                     /\ Len(store[<<Service, u \o Str(m - 1)>>]) >= 1
                     /\ Len(store[<<Service, u \o Str(m - 1)>>]) <= c
                     /\ Len(store[<<Service, u \o Str(m - 1)>>]) = n - (m - 1) * c

\* A secret of four characters was saved in chunks of three: two chunks,
\* the second of one character.
C24_Witness ==
    \E u \in Usernames :
        /\ keyCall.op = "save"
        /\ Len(lastSaved[u].token) = 4
        /\ lastSaved[u].size = 3
        /\ DOMAIN store = {<<Service, u \o Str(0)>>, <<Service, u \o Str(1)>>}
        /\ Len(store[<<Service, u \o Str(1)>>]) = 1

C26_NoDeliveryAfterUnsubscribe ==
    [][\A k \in Slots :
          (conns[k] # Free /\ ws[conns[k].chan] # k) =>
              \A cb \in Callbacks :
                  Len(log'[cb]) > Len(log[cb]) => log'[cb][Len(log'[cb])][1] # k]_vars

\* C27: whatever the interleaving of concurrent subscribe calls on a
\* channel, the channel has at most one open connection and every open
\* connection is the one its channel's handle refers to.
C27_ConcurrentSubscribeOpensOne ==
    \A c \in Channels :
        /\ Cardinality(OpenConns(c)) <= 1
        /\ \A k \in OpenConns(c) : ws[c] = k

\* C28: a save or clear under one username leaves the chunks stored under
\* every other username, those a load reads from index 0 on, as they were,
\* and with them what a load for that other username returns.
C28_OtherUsernamesUntouched ==
    [][\A a \in Names :
          (keyCall'.op \in {"save", "clear"} /\ keyCall'.username = a) =>
              \A b \in Names \ {a} :
                  /\ ReadParts(store', Service, b, 0) = ReadParts(store, Service, b, 0)
                  /\ get_long_token_from_keyring(store', Service, b) =
                        get_long_token_from_keyring(store, Service, b)]_vars

\* C29: any two order calls made without a client order id of the caller's
\* own sent different ids.
C29_DefaultOrderIdsDiffer ==
    \A i, j \in DOMAIN sent :
        (i < j /\ sent[i].defaulted /\ sent[j].defaulted) => sent[i].id # sent[j].id

\* C30: when close_web_socket has returned, every channel's handle is None
\* and every connection is closed, whichever channels were connected
\* before; a second call right after it changes neither handles nor
\* connections.
C30_CloseWebSocketClosesAll ==
    [][apiCall'.op = "close_web_socket" =>
          /\ \A c \in Channels : ws'[c] = NoConn
          /\ \A k \in Slots : conns'[k] = Free \/ conns'[k].state = "closed"
          /\ apiCall.op = "close_web_socket" => (ws' = ws /\ conns' = conns)]_vars

====
